---- MODULE Spec2Model ----
(***************************************************************************)
(* Model of the GET /comments handler of src/index.js: one request walks   *)
(* through validation, the video-category lookup, the paged comment fetch, *)
(* the concurrent per-comment sentiment/entity analysis, the theme         *)
(* aggregation and the single JSON response.                               *)
(*                                                                         *)
(* Optional JavaScript values (null / undefined versus a value) are        *)
(* modelled as sequences of length 0 or 1: Null is <<>>, Some(x) is <<x>>. *)
(* Sentiment scores and magnitudes are integers in thousandths, saliences  *)
(* are integers in hundredths.                                             *)
(***************************************************************************)
EXTENDS Integers, Sequences, FiniteSets, TLC

VARIABLES
    YOUTUBE_API_KEY,       \* TRUE iff process.env.YOUTUBE_API_KEY is set
    languageClient,        \* TRUE iff the NLP client was initialised
    req,                   \* req.query: [videoId, pageToken], both optional
    pc,                    \* position of the handler
    videoCategory,         \* the handler's videoCategory local
    videoLookup,           \* Null, or Some(outcome) of the videos.list call
    pageToken,             \* the fetch loop's cursor
    inFlightToken,         \* the cursor the outstanding page request carries
    served,                \* how many of the video's comment threads were listed
    youtubeResponse,       \* Null, or Some([ok, status, nextPageToken]) of the last page response
    allComments,           \* comment texts fetched so far
    fetchedCommentCount,   \* the loop's running count
    sentimentResult,       \* per comment: Null while pending, else Some(outcome)
    entityResult,          \* per comment: Null while pending, else Some(outcome)
    commentsWithAnalysis,  \* per comment: Null until its callback returned
    outOfOrder,            \* observation: some callback returned before an earlier comment's
    externalCalls,         \* which external services were called in this run
    responses              \* the responses sent on res, in order

vars == <<YOUTUBE_API_KEY, languageClient, req, pc, videoCategory, videoLookup, pageToken,
          inFlightToken, served, youtubeResponse, allComments, fetchedCommentCount, sentimentResult,
          entityResult, commentsWithAnalysis, outOfOrder, externalCalls,
          responses>>

Null == <<>>
Some(x) == <<x>>

(***************************************************************************)
(* Program constants.  maxResults (100 in the source) and                  *)
(* maxCommentsToFetch (500 in the source) are scaled down so that the      *)
(* comment list stays small; every formula refers to them by name.         *)
(***************************************************************************)
maxResults == 2
maxCommentsToFetch == 2
minSalienceForTheme == 5
minThemeOccurrences == 2
MaxThemes == 5
SentimentThreshold == 200

(***************************************************************************)
(* Inputs of the environment.                                              *)
(***************************************************************************)
VideoIds == {Null, Some("v1")}
QueryTokens == {Null, Some("Q")}
Cursors == {"T1", "T2"}
ErrorStatuses == {403, 500}
UpstreamErrors == {Null, Some("quotaExceeded")}

\* The video's comment threads in listing order, each by its textOriginal ("" is
\* falsy).  A page holds the next 0 .. maxResults of them.
VideoComments == <<"first", "", "nice", "cool">>
Min(a, b) == IF a < b THEN a ELSE b
PageSizes(from) == 0 .. Min(maxResults, Len(VideoComments) - from)
PageItems(from, n) == SubSeq(VideoComments, from + 1, from + n)

\* videos.list outcomes: a known category id, an unknown one, a response that is
\* not ok or holds no item, a throw (network error, unparseable body, bad item).
VideoOutcomes ==
    {[kind |-> "ok", categoryId |-> 10], [kind |-> "ok", categoryId |-> 99],
     [kind |-> "notFound", categoryId |-> 0], [kind |-> "throw", categoryId |-> 0]}

\* analyzeSentiment / analyzeEntities outcomes as Promise.allSettled reports them.
\* A fulfilled call whose value lacks its first element is Malformed.  Rejection
\* reasons are Error objects, whose messages are non-empty strings.
Fulfilled(v) == [status |-> "fulfilled", value |-> Some(v), reason |-> ""]
Malformed == [status |-> "fulfilled", value |-> Null, reason |-> ""]
Rejected(m) == [status |-> "rejected", value |-> Null, reason |-> m]

DocumentSentiment(s, m) == [score |-> Some(s), magnitude |-> Some(m)]
SentimentOutcomes ==
    {Fulfilled(DocumentSentiment(204, 600)), Fulfilled(DocumentSentiment(-300, 300)),
     Malformed, Rejected("sentiment unavailable")}

ApiEntity(n, t, s) == [name |-> n, type |-> t, salience |-> s, mentions |-> 1]
EntitiesA ==
    <<ApiEntity("Song", "WORK_OF_ART", 50), ApiEntity("beat", "OTHER", 20),
      ApiEntity("video", "CONSUMER_GOOD", 10), ApiEntity("concert", "EVENT", 10),
      ApiEntity("album", "PRODUCT", 6), ApiEntity("lyrics", "UNKNOWN", 6),
      ApiEntity("LYRICS", "OTHER", 30), ApiEntity("Singer", "PERSON", 60),
      ApiEntity("intro", "OTHER", 5)>>
EntitiesB ==
    <<ApiEntity("song", "WORK_OF_ART", 40), ApiEntity("intro", "EVENT", 5),
      ApiEntity("intro", "OTHER", 5), ApiEntity("singer", "LOCATION", 30)>>
EntityOutcomes ==
    {Fulfilled(EntitiesA), Fulfilled(EntitiesB), Malformed,
     Rejected("entities unavailable")}

(***************************************************************************)
(* The response payloads.  fields is the set of keys the JSON body holds.  *)
(***************************************************************************)
Body(message, fields) ==
    [message |-> message, fields |-> fields, comments |-> <<>>,
     videoCategory |-> "", themes |-> <<>>, error |-> Null, details |-> Null]

MissingVideoIdResponse ==
    [status |-> 400, body |-> Body(<<"Missing videoId parameter">>, {"message"})]

MissingApiKeyResponse ==
    [status |-> 500,
     body |-> Body(<<"Server configuration error: YouTube API Key missing.">>,
                   {"message"})]

ClientNotReadyResponse ==
    [status |-> 500,
     body |-> Body(<<"Server configuration error: Natural Language API client not ready.">>,
                   {"message"})]

\* a variant that answers every upstream failure with status 500
YoutubeErrorResponseAs500(status, error, category) ==
    [status |-> 500,
     body |-> [Body(IF error # Null THEN error ELSE <<"Error from YouTube API">>,
                    {"message", "details", "videoCategory"})
               EXCEPT !.details = error, !.videoCategory = category]]

\* lines 136-142: the upstream status and error forwarded, with the category
YoutubeErrorResponse(status, error, category) ==
    [status |-> status,
     body |-> [Body(IF error # Null THEN error ELSE <<"Error from YouTube API">>,
                    {"message", "details", "videoCategory"})
               EXCEPT !.details = error, !.videoCategory = category]]

\* a variant that reports an empty fetch as an error
NoCommentsAsNotFound(category) ==
    [status |-> 404,
     body |-> [Body(<<"No comments found or fetched.">>, {"message", "videoCategory"})
               EXCEPT !.videoCategory = category]]

\* lines 165-170
NoCommentsResponse(category) ==
    [status |-> 200,
     body |-> [Body(<<"No comments found or fetched.">>,
                    {"message", "comments", "videoCategory", "themes"})
               EXCEPT !.videoCategory = category]]

\* lines 303-307: the outer catch
InternalErrorResponse(message, category) ==
    [status |-> 500,
     body |-> [Body(<<"Internal Server Error">>, {"message", "error", "videoCategory"})
               EXCEPT !.error = Some(message), !.videoCategory = category]]

(***************************************************************************)
(* Category Resolver, lines 64-117.                                        *)
(***************************************************************************)
categoryMap ==
    [id \in {1, 2, 10, 15, 17, 19, 20} \cup (22 .. 44) |->
        CASE id = 1 -> "Film & Animation" [] id = 2 -> "Autos & Vehicles"
          [] id = 10 -> "Music" [] id = 15 -> "Pets & Animals"
          [] id = 17 -> "Sports" [] id = 19 -> "Travel & Events"
          [] id = 20 -> "Gaming" [] id = 22 -> "People & Blogs"
          [] id = 23 -> "Comedy" [] id = 24 -> "Entertainment"
          [] id = 25 -> "News & Politics" [] id = 26 -> "Howto & Style"
          [] id = 27 -> "Education" [] id = 28 -> "Science & Technology"
          [] id = 29 -> "Nonprofits & Activism" [] id = 30 -> "Movies"
          [] id = 31 -> "Anime/Animation" [] id = 32 -> "Action/Adventure"
          [] id = 33 -> "Classics" [] id = 34 -> "Comedy (Film)"
          [] id = 35 -> "Documentary" [] id = 36 -> "Drama"
          [] id = 37 -> "Family" [] id = 38 -> "Foreign"
          [] id = 39 -> "Horror" [] id = 40 -> "Sci-Fi/Fantasy"
          [] id = 41 -> "Thriller" [] id = 42 -> "Shorts"
          [] id = 43 -> "Shows" [] OTHER -> "Trailers"]

\* a variant without the separate label of the catch block
CategoryLabelOneSentinel(outcome) ==
    IF outcome.kind = "ok"
    THEN IF outcome.categoryId \in DOMAIN categoryMap
         THEN categoryMap[outcome.categoryId]
         ELSE "Category ID: " \o ToString(outcome.categoryId)
    ELSE "Unknown or Not Found"

\* lines 69-116
CategoryLabel(outcome) ==
    IF outcome.kind = "throw" THEN "Error Fetching"
    ELSE IF outcome.kind = "ok"
         THEN IF outcome.categoryId \in DOMAIN categoryMap
              THEN categoryMap[outcome.categoryId]
              ELSE "Category ID: " \o ToString(outcome.categoryId)
         ELSE "Unknown or Not Found"

(***************************************************************************)
(* Comment Fetcher helpers, lines 145-162.                                 *)
(***************************************************************************)
Truthy(text) == text # ""

\* .map(textOriginal).filter((text) => text)
CommentsToAdd(items) == SelectSeq(items, Truthy)

\* a variant of the delay condition without the cap
ShouldDelayNoCap(token, count) == token # Null

\* line 159: the condition of the inter-page delay
ShouldDelay(token, count) == token # Null /\ count < maxCommentsToFetch

\* a variant of the loop condition without the cap
LoopContinuesNoCap(token, count) == token # Null

\* line 162: the condition of the do...while loop
LoopContinues(token, count) == token # Null /\ count < maxCommentsToFetch

\* where the handler goes once the iteration is over
AfterDelay(token, count) == IF LoopContinues(token, count) THEN "page" ELSE "fetched"

(***************************************************************************)
(* Comment Analyzer: the callback of allComments.map, lines 174-226, as a  *)
(* function of the two settled results.                                    *)
(***************************************************************************)
\* a variant of the initial sentiment that starts from zeros
ZeroSentiment == [score |-> Some(0), magnitude |-> Some(0)]

\* line 175
NullSentiment == [score |-> Null, magnitude |-> Null]
SentimentTypeError == "Cannot read properties of undefined (reading 'documentSentiment')"
EntityTypeError == "Cannot read properties of undefined (reading 'entities')"

\* a variant of the entity branch that always records its own message
NoErrorAlways(commentError) == TRUE

\* line 208: if (!commentError)
NoError(commentError) == commentError = Null \/ commentError[1] = ""

\* lines 202-206
PickEntity(entity) ==
    [name |-> entity.name, type |-> entity.type, salience |-> entity.salience]
MapEntities(list) == [j \in 1 .. Len(list) |-> PickEntity(list[j])]

\* lines 191-198; thrown is set when line 192 throws into the catch of line 213
ProcessSentiment(sentimentRes) ==
    IF sentimentRes.status = "fulfilled"
    THEN IF sentimentRes.value # Null
         THEN [sentiment |-> sentimentRes.value[1], error |-> Null, thrown |-> FALSE]
         ELSE [sentiment |-> NullSentiment, error |-> Null, thrown |-> TRUE]
    ELSE [sentiment |-> NullSentiment, error |-> Some(sentimentRes.reason),
          thrown |-> FALSE]

\* lines 201-212 and the catch of lines 213-218, after ProcessSentiment
AnalyzeComment(commentText, sentimentRes, entityRes) ==
    LET s == ProcessSentiment(sentimentRes) IN
    IF s.thrown
    THEN [text |-> commentText, sentiment |-> s.sentiment, entities |-> <<>>,
          error |-> Some(SentimentTypeError)]
    ELSE IF entityRes.status = "fulfilled"
         THEN IF entityRes.value # Null
              THEN [text |-> commentText, sentiment |-> s.sentiment,
                    entities |-> MapEntities(entityRes.value[1]), error |-> s.error]
              ELSE [text |-> commentText, sentiment |-> s.sentiment,
                    entities |-> <<>>, error |-> Some(EntityTypeError)]
         ELSE [text |-> commentText, sentiment |-> s.sentiment, entities |-> <<>>,
               error |-> IF NoError(s.error) THEN Some(entityRes.reason) ELSE s.error]

\* a variant that collects the results in the order the callbacks return
StoreInCompletionOrder(results, i, record) ==
    LET k == CHOOSE k \in 1 .. Len(results) :
                 results[k] = Null /\ \A m \in 1 .. k - 1 : results[m] # Null
    IN [results EXCEPT ![k] = Some(record)]

\* Promise.all keeps each callback's result at the index of its promise
StoreResult(results, i, record) == [results EXCEPT ![i] = Some(record)]

(***************************************************************************)
(* Theme Aggregator, lines 231-290.                                        *)
(***************************************************************************)
ThemeTypes == {"WORK_OF_ART", "CONSUMER_GOOD", "OTHER", "EVENT", "PRODUCT", "UNKNOWN"}

\* String.prototype.toLowerCase on the names the entity fixtures use
ToLowerCase(name) ==
    CASE name = "Song" -> "song"
      [] name = "LYRICS" -> "lyrics"
      [] name = "Singer" -> "singer"
      [] OTHER -> name

\* lines 237-243
HasScoreAndEntities(comment) ==
    comment.sentiment.score # Null /\ Len(comment.entities) > 0

\* a variant of the entity filter that lets a salience of exactly 0.05 through
QualifiesAtThreshold(entity) ==
    entity.type \in ThemeTypes /\ entity.salience >= minSalienceForTheme

\* lines 245-255
QualifiesAsTheme(entity) ==
    entity.type \in ThemeTypes /\ entity.salience > minSalienceForTheme

EmptyThemes == [order |-> <<>>, themeCounts |-> <<>>, themeSentimentScores |-> <<>>]

IndexOf(seq, x) ==
    IF \E k \in 1 .. Len(seq) : seq[k] = x
    THEN CHOOSE k \in 1 .. Len(seq) : seq[k] = x
    ELSE 0

\* a variant whose counter starts from 1 before the first increment
AddMentionFromOne(acc, themeName, score) ==
    LET k == IndexOf(acc.order, themeName) IN
    IF k = 0
    THEN [order |-> Append(acc.order, themeName),
          themeCounts |-> Append(acc.themeCounts, 2),
          themeSentimentScores |->
              Append(acc.themeSentimentScores, [sum |-> score, count |-> 1])]
    ELSE [order |-> acc.order,
          themeCounts |-> [acc.themeCounts EXCEPT ![k] = @ + 1],
          themeSentimentScores |->
              [acc.themeSentimentScores EXCEPT ![k] =
                  [sum |-> @.sum + score, count |-> @.count + 1]]]

\* lines 256-263; order keeps the keys in insertion order, as for...in visits them
AddMention(acc, themeName, score) ==
    LET k == IndexOf(acc.order, themeName) IN
    IF k = 0
    THEN [order |-> Append(acc.order, themeName),
          themeCounts |-> Append(acc.themeCounts, 1),
          themeSentimentScores |->
              Append(acc.themeSentimentScores, [sum |-> score, count |-> 1])]
    ELSE [order |-> acc.order,
          themeCounts |-> [acc.themeCounts EXCEPT ![k] = @ + 1],
          themeSentimentScores |->
              [acc.themeSentimentScores EXCEPT ![k] =
                  [sum |-> @.sum + score, count |-> @.count + 1]]]

RECURSIVE AccumulateEntities(_, _, _)
\* comment.entities.forEach, lines 244-265, over the first n entities
AccumulateEntities(acc, comment, n) ==
    IF n = 0 THEN acc
    ELSE LET before == AccumulateEntities(acc, comment, n - 1)
             entity == comment.entities[n]
         IN IF QualifiesAsTheme(entity)
            THEN AddMention(before, ToLowerCase(entity.name), comment.sentiment.score[1])
            ELSE before

RECURSIVE AccumulateComments(_, _)
\* commentsWithAnalysis.forEach, lines 236-267, over the first n comments
AccumulateComments(comments, n) ==
    IF n = 0 THEN EmptyThemes
    ELSE LET before == AccumulateComments(comments, n - 1)
             comment == comments[n]
         IN IF HasScoreAndEntities(comment)
            THEN AccumulateEntities(before, comment, Len(comment.entities))
            ELSE before

Abs(x) == IF x < 0 THEN -x ELSE x

\* (sum / count).toFixed(2): sign and hundredths of the nearest 2-decimal value
ToFixed2(sum, count) ==
    IF count = 0 THEN [negative |-> FALSE, hundredths |-> 0]
    ELSE [negative |-> sum < 0,
          hundredths |-> (2 * Abs(sum) + 10 * count) \div (20 * count)]

\* a variant that classifies the value rounded to 2 decimal places
SentimentCategoryOfRounded(sum, count) ==
    IF ToFixed2(sum, count).hundredths * 10 > SentimentThreshold
    THEN IF sum < 0 THEN "negative" ELSE "positive"
    ELSE "neutral"

\* lines 277-279 on avgSentiment = sum / count (0 when count is 0)
SentimentCategory(sum, count) ==
    IF count > 0 /\ sum > SentimentThreshold * count THEN "positive"
    ELSE IF count > 0 /\ sum < -(SentimentThreshold * count) THEN "negative"
    ELSE "neutral"

\* lines 281-286
ThemeOf(acc, k) ==
    [name |-> acc.order[k],
     occurrences |-> acc.themeCounts[k],
     averageSentiment |-> ToFixed2(acc.themeSentimentScores[k].sum,
                                   acc.themeSentimentScores[k].count),
     sentimentCategory |-> SentimentCategory(acc.themeSentimentScores[k].sum,
                                             acc.themeSentimentScores[k].count)]

RECURSIVE CommonThemes(_, _)
\* lines 269-288 over the first n keys
CommonThemes(acc, n) ==
    IF n = 0 THEN <<>>
    ELSE IF acc.themeCounts[n] >= minThemeOccurrences
         THEN Append(CommonThemes(acc, n - 1), ThemeOf(acc, n))
         ELSE CommonThemes(acc, n - 1)

\* one step of the stable descending sort: x goes behind every theme with at
\* least as many occurrences
InsertTheme(sorted, x) ==
    LET ahead == {k \in 0 .. Len(sorted) :
                     \A m \in 1 .. k : sorted[m].occurrences >= x.occurrences}
        pos == CHOOSE k \in ahead : \A m \in ahead : m <= k
    IN SubSeq(sorted, 1, pos) \o <<x>> \o SubSeq(sorted, pos + 1, Len(sorted))

RECURSIVE SortFirst(_, _)
SortFirst(themes, n) ==
    IF n = 0 THEN <<>> ELSE InsertTheme(SortFirst(themes, n - 1), themes[n])

\* a variant that leaves the themes in insertion order
Unsorted(themes) == themes

\* line 290: commonThemes.sort((a, b) => b.occurrences - a.occurrences)
SortThemes(themes) == SortFirst(themes, Len(themes))

\* line 296: commonThemes.slice(0, 5)
TopThemes(themes) ==
    SubSeq(themes, 1, IF Len(themes) < MaxThemes THEN Len(themes) ELSE MaxThemes)

Themes(comments) ==
    LET acc == AccumulateComments(comments, Len(comments))
    IN TopThemes(SortThemes(CommonThemes(acc, Len(acc.order))))

\* a variant in which one failed analysis rejects the whole request (outer catch)
SuccessOrAbort(comments, category) ==
    IF \E i \in 1 .. Len(comments) : comments[i].error # Null
    THEN [status |-> 500,
          body |-> [Body(<<"Internal Server Error">>, {"message", "error", "videoCategory"})
                    EXCEPT !.error = comments[1].error, !.videoCategory = category]]
    ELSE [status |-> 200,
          body |-> [Body(<<"Successfully fetched and analyzed">>,
                         {"message", "comments", "videoCategory", "themes"})
                    EXCEPT !.comments = comments, !.videoCategory = category]]

\* lines 292-297
SuccessResponse(comments, category) ==
    [status |-> 200,
     body |-> [Body(<<"Successfully fetched and analyzed " \o ToString(Len(comments))
                      \o " comments.">>,
                    {"message", "comments", "videoCategory", "themes"})
               EXCEPT !.comments = comments, !.videoCategory = category,
                      !.themes = Themes(comments)]]

(***************************************************************************)
(* The handler as a state machine.                                         *)
(***************************************************************************)
Init ==
    /\ YOUTUBE_API_KEY \in BOOLEAN
    /\ languageClient \in BOOLEAN
    /\ req \in [videoId : VideoIds, pageToken : QueryTokens]
    /\ pc = "start"
    /\ videoCategory = "Unknown"
    /\ videoLookup = Null
    /\ pageToken = Null
    /\ inFlightToken = Null
    /\ served = 0
    /\ youtubeResponse = Null
    /\ allComments = <<>>
    /\ fetchedCommentCount = 0
    /\ sentimentResult = <<>>
    /\ entityResult = <<>>
    /\ commentsWithAnalysis = <<>>
    /\ outOfOrder = FALSE
    /\ externalCalls = {}
    /\ responses = <<>>

Send(response) == responses' = Append(responses, response)

\* a variant that checks the server's configuration before the query
EarlyResponseConfigFirst(query, apiKey, client) ==
    IF ~apiKey THEN Some(MissingApiKeyResponse)
    ELSE IF ~client THEN Some(ClientNotReadyResponse)
    ELSE IF query.videoId = Null THEN Some(MissingVideoIdResponse)
    ELSE Null

\* lines 43-62: the three early returns, in the order the handler checks them
EarlyResponse(query, apiKey, client) ==
    IF query.videoId = Null THEN Some(MissingVideoIdResponse)
    ELSE IF ~apiKey THEN Some(MissingApiKeyResponse)
    ELSE IF ~client THEN Some(ClientNotReadyResponse)
    ELSE Null

\* a variant whose early responses do not return from the handler
ValidateWithoutReturn ==
    /\ pc = "start"
    /\ pageToken' = req.pageToken
    /\ LET early == EarlyResponse(req, YOUTUBE_API_KEY, languageClient)
       IN IF early # Null
          THEN Send(early[1]) /\ pc' = "category"
          ELSE pc' = "category" /\ UNCHANGED responses
    /\ UNCHANGED <<YOUTUBE_API_KEY, languageClient, req, videoCategory, videoLookup, inFlightToken,
                   served, youtubeResponse, allComments, fetchedCommentCount,
                   sentimentResult, entityResult, commentsWithAnalysis, outOfOrder,
                   externalCalls>>

\* lines 40-62: read the query, then return early or go on
Validate ==
    /\ pc = "start"
    /\ pageToken' = req.pageToken
    /\ LET early == EarlyResponse(req, YOUTUBE_API_KEY, languageClient)
       IN IF early # Null
          THEN Send(early[1]) /\ pc' = "done"
          ELSE pc' = "category" /\ UNCHANGED responses
    /\ UNCHANGED <<YOUTUBE_API_KEY, languageClient, req, videoCategory, videoLookup, inFlightToken,
                   served, youtubeResponse, allComments, fetchedCommentCount,
                   sentimentResult, entityResult, commentsWithAnalysis, outOfOrder,
                   externalCalls>>

\* lines 64-117: the videos.list call and its local try/catch
FetchCategory ==
    /\ pc = "category"
    /\ \E outcome \in VideoOutcomes :
          /\ videoLookup' = Some(outcome)
          /\ videoCategory' = CategoryLabel(outcome)
    /\ externalCalls' = externalCalls \cup {"videos"}
    /\ pc' = "page"
    /\ UNCHANGED <<YOUTUBE_API_KEY, languageClient, req, pageToken, inFlightToken,
                   served, youtubeResponse, allComments, fetchedCommentCount,
                   sentimentResult, entityResult, commentsWithAnalysis, outOfOrder,
                   responses>>

\* a variant that always sends the caller's pageToken
PageTokenFromQuery == req.pageToken

\* lines 127-129: the pageToken parameter of the URL
PageTokenParam == pageToken

\* lines 126-131: build the URL with the current cursor and issue the request
RequestPage ==
    /\ pc = "page"
    /\ inFlightToken' = PageTokenParam
    /\ externalCalls' = externalCalls \cup {"commentThreads"}
    /\ pc' = "awaitPage"
    /\ UNCHANGED <<YOUTUBE_API_KEY, languageClient, req, videoCategory, videoLookup, pageToken,
                   served, youtubeResponse, allComments, fetchedCommentCount,
                   sentimentResult, entityResult, commentsWithAnalysis, outOfOrder,
                   responses>>

\* lines 131-132 throwing (network error, body that is not JSON): outer catch
PageThrows ==
    /\ pc = "awaitPage"
    /\ Send(InternalErrorResponse("request to commentThreads failed", videoCategory))
    /\ inFlightToken' = Null
    /\ pc' = "done"
    /\ UNCHANGED <<YOUTUBE_API_KEY, languageClient, req, videoCategory, videoLookup, pageToken,
                   served, youtubeResponse, allComments, fetchedCommentCount,
                   sentimentResult, entityResult, commentsWithAnalysis, outOfOrder,
                   externalCalls>>

\* lines 134-143: a page response that is not ok
PageFails ==
    /\ pc = "awaitPage"
    /\ \E status \in ErrorStatuses, error \in UpstreamErrors :
          /\ youtubeResponse' = Some([ok |-> FALSE, status |-> status, nextPageToken |-> Null])
          /\ Send(YoutubeErrorResponse(status, error, videoCategory))
    /\ inFlightToken' = Null
    /\ pc' = "done"
    /\ UNCHANGED <<YOUTUBE_API_KEY, languageClient, req, videoCategory, videoLookup, pageToken,
                   served, allComments, fetchedCommentCount, sentimentResult,
                   entityResult, commentsWithAnalysis, outOfOrder, externalCalls>>

\* lines 145-162: an ok page; the loop goes on through the delay or ends
PageSucceeds ==
    /\ pc = "awaitPage"
    /\ \E n \in PageSizes(served), next \in {Null} \cup {Some(c) : c \in Cursors} :
          LET commentsToAdd == CommentsToAdd(PageItems(served, n))
              count == fetchedCommentCount + Len(commentsToAdd)
          IN /\ served' = served + n
             /\ allComments' = allComments \o commentsToAdd
             /\ fetchedCommentCount' = count
             /\ youtubeResponse' = Some([ok |-> TRUE, status |-> 200, nextPageToken |-> next])
             /\ pageToken' = next
             /\ pc' = IF ShouldDelay(next, count) THEN "delay" ELSE AfterDelay(next, count)
    /\ inFlightToken' = Null
    /\ UNCHANGED <<YOUTUBE_API_KEY, languageClient, req, videoCategory, videoLookup,
                   sentimentResult, entityResult, commentsWithAnalysis, outOfOrder,
                   externalCalls, responses>>

\* line 160: the 200 ms timer fires, then the loop condition of line 162
Delay ==
    /\ pc = "delay"
    /\ pc' = AfterDelay(pageToken, fetchedCommentCount)
    /\ UNCHANGED <<YOUTUBE_API_KEY, languageClient, req, videoCategory, videoLookup, pageToken,
                   inFlightToken, served, youtubeResponse, allComments, fetchedCommentCount, sentimentResult,
                   entityResult, commentsWithAnalysis, outOfOrder, externalCalls,
                   responses>>

\* lines 164-171: nothing fetched
RespondNoComments ==
    /\ pc = "fetched"
    /\ Len(allComments) = 0
    /\ Send(NoCommentsResponse(videoCategory))
    /\ pc' = "done"
    /\ UNCHANGED <<YOUTUBE_API_KEY, languageClient, req, videoCategory, videoLookup, pageToken,
                   inFlightToken, served, youtubeResponse, allComments, fetchedCommentCount, sentimentResult,
                   entityResult, commentsWithAnalysis, outOfOrder, externalCalls>>

\* lines 174-188: map starts every callback, each issues its two calls
StartAnalysis ==
    /\ pc = "fetched"
    /\ Len(allComments) > 0
    /\ sentimentResult' = [i \in 1 .. Len(allComments) |-> Null]
    /\ entityResult' = [i \in 1 .. Len(allComments) |-> Null]
    /\ commentsWithAnalysis' = [i \in 1 .. Len(allComments) |-> Null]
    /\ externalCalls' = externalCalls \cup {"analyzeSentiment", "analyzeEntities"}
    /\ pc' = "analyzing"
    /\ UNCHANGED <<YOUTUBE_API_KEY, languageClient, req, videoCategory, videoLookup, pageToken,
                   inFlightToken, served, youtubeResponse, allComments, fetchedCommentCount, outOfOrder,
                   responses>>

\* a variant that returns a comment's record as soon as one of its calls settled
ResumeOnFirstSettled(i, sentimentRes, entityRes) ==
    /\ commentsWithAnalysis' =
          StoreResult(commentsWithAnalysis, i,
                      IF sentimentRes # Null /\ entityRes # Null
                      THEN AnalyzeComment(allComments[i], sentimentRes[1], entityRes[1])
                      ELSE [text |-> allComments[i], sentiment |-> NullSentiment,
                            entities |-> <<>>, error |-> Null])
    /\ outOfOrder' = (outOfOrder \/ \E k \in 1 .. i - 1 : commentsWithAnalysis[k] = Null)

\* the callback of comment i resumes once both of its calls have settled
Resume(i, sentimentRes, entityRes) ==
    IF sentimentRes # Null /\ entityRes # Null
    THEN /\ commentsWithAnalysis' =
                StoreResult(commentsWithAnalysis, i,
                            AnalyzeComment(allComments[i], sentimentRes[1], entityRes[1]))
         /\ outOfOrder' = (outOfOrder \/ \E k \in 1 .. i - 1 : commentsWithAnalysis[k] = Null)
    ELSE UNCHANGED <<commentsWithAnalysis, outOfOrder>>

\* analyzeSentiment of comment i settles
SettleSentiment(i) ==
    /\ pc = "analyzing"
    /\ sentimentResult[i] = Null
    /\ \E outcome \in SentimentOutcomes :
          /\ sentimentResult' = [sentimentResult EXCEPT ![i] = Some(outcome)]
          /\ Resume(i, Some(outcome), entityResult[i])
    /\ UNCHANGED <<YOUTUBE_API_KEY, languageClient, req, pc, videoCategory, videoLookup, pageToken,
                   inFlightToken, served, youtubeResponse, allComments, fetchedCommentCount, entityResult,
                   externalCalls, responses>>

\* analyzeEntities of comment i settles
SettleEntity(i) ==
    /\ pc = "analyzing"
    /\ entityResult[i] = Null
    /\ \E outcome \in EntityOutcomes :
          /\ entityResult' = [entityResult EXCEPT ![i] = Some(outcome)]
          /\ Resume(i, sentimentResult[i], Some(outcome))
    /\ UNCHANGED <<YOUTUBE_API_KEY, languageClient, req, pc, videoCategory, videoLookup, pageToken,
                   inFlightToken, served, youtubeResponse, allComments, fetchedCommentCount, sentimentResult,
                   externalCalls, responses>>

AllReturned == \A i \in 1 .. Len(commentsWithAnalysis) : commentsWithAnalysis[i] # Null

\* lines 228-297: Promise.all resolves, themes are aggregated, the response is sent
RespondSuccess ==
    /\ pc = "analyzing"
    /\ AllReturned
    /\ Send(SuccessResponse([i \in 1 .. Len(commentsWithAnalysis) |->
                                commentsWithAnalysis[i][1]], videoCategory))
    /\ pc' = "done"
    /\ UNCHANGED <<YOUTUBE_API_KEY, languageClient, req, videoCategory, videoLookup, pageToken,
                   inFlightToken, served, youtubeResponse, allComments, fetchedCommentCount, sentimentResult,
                   entityResult, commentsWithAnalysis, outOfOrder, externalCalls>>

Next ==
    \/ Validate
    \/ FetchCategory
    \/ RequestPage
    \/ PageThrows
    \/ PageFails
    \/ PageSucceeds
    \/ Delay
    \/ RespondNoComments
    \/ StartAnalysis
    \/ \E i \in 1 .. Len(sentimentResult) : SettleSentiment(i)
    \/ \E i \in 1 .. Len(entityResult) : SettleEntity(i)
    \/ RespondSuccess

Spec == Init /\ [][Next]_vars

\* The handler up to the end of the Fetcher, against a comment-listing API whose
\* page responses all succeed.  Node's event loop runs every pending continuation
\* and timer, and every request is answered: weak fairness of the steps.
FetcherNext ==
    \/ Validate
    \/ FetchCategory
    \/ RequestPage
    \/ PageSucceeds
    \/ Delay

FetcherSpec == Init /\ [][FetcherNext]_vars /\ WF_vars(FetcherNext)

(***************************************************************************)
(* Properties.                                                             *)
(***************************************************************************)
Responded == pc = "done" /\ Len(responses) > 0
LastResponse == responses[Len(responses)]
NlpCalled == externalCalls \cap {"analyzeSentiment", "analyzeEntities"} # {}

\* C1: every 200 payload holds exactly one record per fetched comment text, and
\* the i-th record's text is the i-th fetched text, whatever the order in which
\* the analysis calls settled.
C1_OrderPreserved ==
    \A r \in 1 .. Len(responses) :
        responses[r].status = 200 =>
            /\ Len(responses[r].body.comments) = Len(allComments)
            /\ \A i \in 1 .. Len(allComments) :
                  responses[r].body.comments[i].text = allComments[i]

\* a 200 payload of at least two comments whose callbacks returned out of order
C1_Witness ==
    /\ Responded
    /\ LastResponse.status = 200
    /\ Len(allComments) >= 2
    /\ outOfOrder

C3_CapBoundsFetch ==
    /\ pc = "awaitPage" => fetchedCommentCount < maxCommentsToFetch
    /\ fetchedCommentCount <= maxCommentsToFetch - 1 + maxResults
    /\ Len(allComments) = fetchedCommentCount

\* the API returned a cursor, yet the Fetcher stopped, having passed the cap
C3_Witness ==
    /\ pc = "fetched"
    /\ pageToken # Null
    /\ fetchedCommentCount > maxCommentsToFetch

\* C4: the Fetcher's page loop always terminates: once the Fetcher is about to
\* request a page, it eventually stops requesting pages.
C4_FetcherTerminates == (pc = "page") ~> (pc \in {"fetched", "done"})

\* C5: a request without videoId is answered 400 and makes no external call,
\* whatever the server's configuration.
C5_MissingVideoId ==
    req.videoId = Null =>
        /\ externalCalls = {}
        /\ pc \in {"start", "done"}
        /\ pc = "done" => Len(responses) = 1 /\ responses[1].status = 400

\* a request without videoId was answered while both credentials were missing
C5_Witness ==
    /\ req.videoId = Null
    /\ ~YOUTUBE_API_KEY
    /\ ~languageClient
    /\ Responded

Settled(i) == sentimentResult[i] # Null /\ entityResult[i] # Null
SentimentFailed(i) == sentimentResult[i] # Null /\ sentimentResult[i][1].status = "rejected"
EntityFailed(i) == entityResult[i] # Null /\ entityResult[i][1].status = "rejected"
SentimentSucceeded(i) ==
    /\ sentimentResult[i] # Null
    /\ sentimentResult[i][1].status = "fulfilled"
    /\ sentimentResult[i][1].value # Null
EntitySucceeded(i) ==
    /\ entityResult[i] # Null
    /\ entityResult[i][1].status = "fulfilled"
    /\ entityResult[i][1].value # Null
AnalysisSent == Responded /\ NlpCalled

\* C6: a comment whose sentiment call and entity call both failed has, in the
\* response, null score and magnitude, no entities and a non-null error.
C6_BothFailed ==
    AnalysisSent =>
        \A i \in 1 .. Len(allComments) :
            (SentimentFailed(i) /\ EntityFailed(i)) =>
                LET record == LastResponse.body.comments[i] IN
                /\ record.sentiment.score = Null
                /\ record.sentiment.magnitude = Null
                /\ record.entities = <<>>
                /\ record.error # Null

\* the response was sent and some comment's two calls both failed
C6_Witness ==
    /\ AnalysisSent
    /\ \E i \in 1 .. Len(allComments) : SentimentFailed(i) /\ EntityFailed(i)

\* the entities of an analyzeEntities result as the record reports them
ReportedEntities(i) ==
    LET list == entityResult[i][1].value[1] IN
    [j \in 1 .. Len(list) |->
        [name |-> list[j].name, type |-> list[j].type, salience |-> list[j].salience]]

\* C7: the two calls of a comment fail independently: only sentiment failed ->
\* returned entities, null sentiment, sentiment's message; only entities failed ->
\* returned sentiment, no entities, entity's message; both failed -> sentiment's
\* message.
C7_IndependentFailures ==
    AnalysisSent =>
        \A i \in 1 .. Len(allComments) :
            LET record == LastResponse.body.comments[i] IN
            /\ (SentimentFailed(i) /\ EntitySucceeded(i)) =>
                  /\ record.entities = ReportedEntities(i)
                  /\ record.sentiment = [score |-> Null, magnitude |-> Null]
                  /\ record.error = Some(sentimentResult[i][1].reason)
            /\ (SentimentSucceeded(i) /\ EntityFailed(i)) =>
                  /\ record.sentiment = sentimentResult[i][1].value[1]
                  /\ record.entities = <<>>
                  /\ record.error = Some(entityResult[i][1].reason)
            /\ (SentimentFailed(i) /\ EntityFailed(i)) =>
                  record.error = Some(sentimentResult[i][1].reason)

\* one response in which each of the three failure patterns occurs
C7_Witness ==
    /\ AnalysisSent
    /\ \E i \in 1 .. Len(allComments) : SentimentFailed(i) /\ EntitySucceeded(i)
    /\ \E i \in 1 .. Len(allComments) : SentimentSucceeded(i) /\ EntityFailed(i)
    /\ \E i \in 1 .. Len(allComments) : SentimentFailed(i) /\ EntityFailed(i)

\* C8: NLP failures never abort the request: once the analysis was started
\* nothing but the 200 payload is sent, it holds one record per fetched comment,
\* and a comment whose two calls succeeded has the record of its own results,
\* whatever happened to the other comments.
C8_FailuresContained ==
    /\ (NlpCalled /\ pc # "done") => responses = <<>>
    /\ AnalysisSent =>
          /\ Len(responses) = 1
          /\ responses[1].status = 200
          /\ Len(responses[1].body.comments) = Len(allComments)
          /\ \A i \in 1 .. Len(allComments) :
                (SentimentSucceeded(i) /\ EntitySucceeded(i)) =>
                    responses[1].body.comments[i] =
                        [text |-> allComments[i],
                         sentiment |-> sentimentResult[i][1].value[1],
                         entities |-> ReportedEntities(i),
                         error |-> Null]

\* a response with a comment whose calls both succeeded, one whose calls both
\* were rejected and one with a malformed result
C8_Witness ==
    /\ AnalysisSent
    /\ \E i \in 1 .. Len(allComments) : SentimentSucceeded(i) /\ EntitySucceeded(i)
    /\ \E i \in 1 .. Len(allComments) : SentimentFailed(i) /\ EntityFailed(i)
    /\ \E i \in 1 .. Len(allComments) :
          sentimentResult[i] = Some(Malformed) \/ entityResult[i] = Some(Malformed)

\* The theme keys the entity fixtures can produce.
ThemeKeys ==
    {ToLowerCase(EntitiesA[j].name) : j \in 1 .. Len(EntitiesA)}
        \cup {ToLowerCase(EntitiesB[j].name) : j \in 1 .. Len(EntitiesB)}

\* The qualifying mentions of a key, counted from the records of a response:
\* one per entity of an eligible type with salience above 0.05 and that
\* lowercased name, in a comment with a numeric sentiment score.
Mentions(comments, key) ==
    Cardinality({ij \in (1 .. Len(comments)) \X (1 .. Len(EntitiesA)) :
        /\ comments[ij[1]].sentiment.score # Null
        /\ ij[2] <= Len(comments[ij[1]].entities)
        /\ LET entity == comments[ij[1]].entities[ij[2]] IN
           /\ entity.type \in {"WORK_OF_ART", "CONSUMER_GOOD", "OTHER", "EVENT",
                               "PRODUCT", "UNKNOWN"}
           /\ entity.salience > 5
           /\ ToLowerCase(entity.name) = key})

SuccessSent == AnalysisSent /\ LastResponse.status = 200
Listed(themes, key) == \E k \in 1 .. Len(themes) : themes[k].name = key

C10_TopFiveRanked ==
    (Responded /\ LastResponse.status = 200) =>
        LET body == LastResponse.body IN
        /\ Len(body.themes) <= 5
        /\ \A k \in 1 .. Len(body.themes) - 1 :
              body.themes[k].occurrences >= body.themes[k + 1].occurrences
        /\ \A key \in ThemeKeys :
              (Mentions(body.comments, key) >= 2 /\ ~Listed(body.themes, key)) =>
                  \A k \in 1 .. Len(body.themes) :
                      Mentions(body.comments, key) <= body.themes[k].occurrences

\* a full list of 5 themes with unequal occurrences and a candidate left out
C10_Witness ==
    /\ SuccessSent
    /\ Len(LastResponse.body.themes) = 5
    /\ LastResponse.body.themes[1].occurrences > LastResponse.body.themes[5].occurrences
    /\ \E key \in ThemeKeys :
          /\ Mentions(LastResponse.body.comments, key) >= 2
          /\ ~Listed(LastResponse.body.themes, key)

\* the number of records in which an entity of that lowercased name is present
CommentsNaming(comments, key) ==
    Cardinality({i \in 1 .. Len(comments) :
        \E j \in 1 .. Len(comments[i].entities) :
            ToLowerCase(comments[i].entities[j].name) = key})

\* the number of entities of that lowercased name in the records
EntitiesNamed(comments, key) ==
    Cardinality({ij \in (1 .. Len(comments)) \X (1 .. Len(EntitiesA)) :
        /\ ij[2] <= Len(comments[ij[1]].entities)
        /\ ToLowerCase(comments[ij[1]].entities[ij[2]].name) = key})

\* C11 as stated: after every comment of the aggregation, and in the emitted
\* themes, a key's occurrence count is at most the number of analysed comments
\* in which an entity of that name is present.
C11_CountWithinComments ==
    SuccessSent =>
        LET body == LastResponse.body IN
        /\ \A n \in 0 .. Len(body.comments) :
              LET acc == AccumulateComments(body.comments, n) IN
              \A k \in 1 .. Len(acc.order) :
                  acc.themeCounts[k] <= CommentsNaming(SubSeq(body.comments, 1, n), acc.order[k])
        /\ \A k \in 1 .. Len(body.themes) :
              body.themes[k].occurrences <= CommentsNaming(body.comments, body.themes[k].name)

\* C11 amended: after every comment of the aggregation, and in the emitted
\* themes, a key's occurrence count is at most the number of entities of that
\* name in the analysed comments (a comment naming it twice counts twice).
C11_CountWithinEntities ==
    SuccessSent =>
        LET body == LastResponse.body IN
        /\ \A n \in 0 .. Len(body.comments) :
              LET acc == AccumulateComments(body.comments, n) IN
              \A k \in 1 .. Len(acc.order) :
                  acc.themeCounts[k] <= EntitiesNamed(SubSeq(body.comments, 1, n), acc.order[k])
        /\ \A k \in 1 .. Len(body.themes) :
              body.themes[k].occurrences <= EntitiesNamed(body.comments, body.themes[k].name)

\* an emitted theme with more occurrences than comments naming it, as many as
\* entities naming it
C11_Witness ==
    /\ SuccessSent
    /\ \E k \in 1 .. Len(LastResponse.body.themes) :
          LET theme == LastResponse.body.themes[k] IN
          /\ theme.occurrences > CommentsNaming(LastResponse.body.comments, theme.name)
          /\ theme.occurrences = EntitiesNamed(LastResponse.body.comments, theme.name)

\* C12: no outcome of the video-metadata lookup aborts the request: a response
\* that is not ok or holds no item gives the label "Unknown or Not Found", a
\* throw gives the distinct label "Error Fetching", the handler goes on to
\* request comments without having answered, and the final response carries the
\* label.
C12_LookupContained ==
    videoLookup # Null =>
        /\ videoLookup[1].kind = "notFound" => videoCategory = "Unknown or Not Found"
        /\ videoLookup[1].kind = "throw" => videoCategory = "Error Fetching"
        /\ pc = "page" => responses = <<>>
        /\ pc # "page" => "commentThreads" \in externalCalls
        /\ Responded =>
              /\ "videoCategory" \in LastResponse.body.fields
              /\ LastResponse.body.videoCategory = videoCategory

\* the lookup threw and the request still ended with the analysed comments
C12_Witness ==
    /\ videoLookup # Null
    /\ videoLookup[1].kind = "throw"
    /\ SuccessSent
    /\ LastResponse.body.videoCategory = "Error Fetching"

\* C13: every error payload (status 400 or above) of the four unrecoverable
\* cases carries a status code and a category label, which is the label computed
\* so far, or "Unknown" when the category lookup had not completed.
C13_ErrorsCarryCategory ==
    (Responded /\ LastResponse.status >= 400) =>
        /\ "videoCategory" \in LastResponse.body.fields
        /\ LastResponse.body.videoCategory = videoCategory
        /\ videoLookup = Null => LastResponse.body.videoCategory = "Unknown"

\* C14: a response to a request whose comments are analysed is sent only after
\* every sentiment call and every entity call issued for it has completed,
\* fulfilled or failed: none is outstanding or cancelled when the response (and
\* the theme aggregation that precedes it) happens.
C14_FanIn ==
    AnalysisSent =>
        /\ Len(sentimentResult) = Len(allComments)
        /\ Len(entityResult) = Len(allComments)
        /\ \A i \in 1 .. Len(allComments) : Settled(i)

\* three comments were analysed, with a failed and a fulfilled call among them
C14_Witness ==
    /\ AnalysisSent
    /\ Len(allComments) = 3
    /\ \E i \in 1 .. 3 : SentimentFailed(i)
    /\ \E i \in 1 .. 3 : EntitySucceeded(i)

\* the step in which the first comment-listing page arrives, ok and with no item
FirstPageArrivesEmpty ==
    /\ pc = "awaitPage"
    /\ youtubeResponse = Null
    /\ youtubeResponse' # Null
    /\ youtubeResponse'[1].ok
    /\ served' = 0

\* the step that follows a fetch that ended with the empty list: the request is
\* answered 200 with empty comments and themes, and no NLP call was issued
EmptyListAnswered ==
    (pc = "fetched" /\ allComments = <<>> /\ pc' # "fetched") =>
        /\ pc' = "done"
        /\ Len(responses') = 1
        /\ responses'[1].status = 200
        /\ responses'[1].body.fields = {"message", "comments", "videoCategory", "themes"}
        /\ responses'[1].body.comments = <<>>
        /\ responses'[1].body.themes = <<>>
        /\ externalCalls' \cap {"analyzeSentiment", "analyzeEntities"} = {}

\* C15 as stated: when the first page yields zero items the Fetcher returns the
\* empty list, and the request is answered 200 with empty comments and themes
\* without any NLP call.
C15_EmptyFirstPage ==
    [][/\ FirstPageArrivesEmpty => (pc' = "fetched" /\ allComments' = <<>>)
       /\ EmptyListAnswered]_vars

\* C15: when the first page yields zero items and no continuation cursor, the
\* Fetcher returns the empty list, and the request is answered 200 with empty
\* comments and themes without any NLP call.
C15_EmptyLastFirstPage ==
    [][/\ (FirstPageArrivesEmpty /\ youtubeResponse'[1].nextPageToken = Null)
             => (pc' = "fetched" /\ allComments' = <<>>)
       /\ EmptyListAnswered]_vars

\* a request answered after a single page that held no item and no cursor
C15_Witness ==
    /\ Responded
    /\ LastResponse.status = 200
    /\ LastResponse.body.comments = <<>>
    /\ served = 0
    /\ youtubeResponse # Null
    /\ youtubeResponse[1].nextPageToken = Null
    /\ pageToken = Null
    /\ ~NlpCalled

\* a fulfilled call of comment i whose result is malformed: processing it throws
SentimentMalformed(i) == sentimentResult[i] # Null /\ sentimentResult[i][1] = Malformed
EntityMalformed(i) == entityResult[i] # Null /\ entityResult[i][1] = Malformed

\* C16: a comment for which an unexpected failure was raised while its two
\* results were processed is treated as both analyses failed: null sentiment
\* fields, no entities, and the failure's message as error.
C16_UnexpectedAsBothFailed ==
    AnalysisSent =>
        \A i \in 1 .. Len(allComments) :
            (SentimentMalformed(i) \/ EntityMalformed(i)) =>
                LET record == LastResponse.body.comments[i] IN
                /\ record.sentiment = NullSentiment
                /\ record.entities = <<>>
                /\ record.error = Some(IF SentimentMalformed(i)
                                       THEN SentimentTypeError ELSE EntityTypeError)

\* C17: the first comment-listing request carries the caller's pageToken, or no
\* cursor when none was supplied; every later request carries exactly the cursor
\* of the page response just before it; no page is requested after a response
\* without a cursor.
C17_CursorChaining ==
    /\ pc = "awaitPage" =>
          IF youtubeResponse = Null
          THEN inFlightToken = req.pageToken
          ELSE /\ youtubeResponse[1].ok
               /\ youtubeResponse[1].nextPageToken # Null
               /\ inFlightToken = youtubeResponse[1].nextPageToken
    /\ (pc \in {"page", "delay"} /\ youtubeResponse # Null) =>
          /\ youtubeResponse[1].nextPageToken # Null
          /\ pageToken = youtubeResponse[1].nextPageToken

\* a later request is outstanding with the cursor T2 of the previous page, in a
\* run whose caller supplied another cursor
C17_Witness ==
    /\ pc = "awaitPage"
    /\ youtubeResponse # Null
    /\ inFlightToken = Some("T2")
    /\ req.pageToken = Some("Q")

\* C18: every page request but the first follows exactly one delay, which starts
\* when the previous page's response has been processed; a delay is always
\* followed by a page request, so none is taken after the last page.
C18_DelayBetweenPages ==
    [][/\ (pc' = "page" /\ pc # "page") => pc \in {"category", "delay"}
       /\ (pc' = "page" /\ pc = "category") => youtubeResponse = Null
       /\ (pc' = "delay" /\ pc # "delay") =>
             (pc = "awaitPage" /\ youtubeResponse' # Null /\ youtubeResponse'[1].ok)
       /\ (pc = "delay" /\ pc' # "delay") => pc' = "page"
       /\ (pc' = "fetched" /\ pc # "fetched") => pc = "awaitPage"]_vars

\* the fetch ended at the cap on a page that still had a cursor, after at least
\* two pages
C18_Witness ==
    /\ pc = "fetched"
    /\ pageToken # Null
    /\ served >= 3
    /\ fetchedCommentCount >= maxCommentsToFetch

\* the qualifying mentions of a key in one record
MentionsIn(comment, key) == Mentions(<<comment>>, key)

RECURSIVE ScoreSum(_, _, _)
\* the sum, over the first n records, of the score of each qualifying mention of
\* a key (thousandths)
ScoreSum(comments, key, n) ==
    IF n = 0 THEN 0
    ELSE ScoreSum(comments, key, n - 1)
            + (IF MentionsIn(comments[n], key) > 0
               THEN comments[n].sentiment.score[1] * MentionsIn(comments[n], key)
               ELSE 0)

\* C19 as stated: every emitted theme's sentimentCategory agrees with its
\* emitted averageSentiment, the average rounded to 2 decimal places: positive
\* exactly when that is > 0.2, negative exactly when it is < -0.2, neutral
\* otherwise.
C19_CategoryOfEmittedAverage ==
    SuccessSent =>
        \A k \in 1 .. Len(LastResponse.body.themes) :
            LET theme == LastResponse.body.themes[k]
                emitted == IF theme.averageSentiment.negative
                           THEN -theme.averageSentiment.hundredths
                           ELSE theme.averageSentiment.hundredths
            IN /\ theme.sentimentCategory = "positive" <=> emitted > 20
               /\ theme.sentimentCategory = "negative" <=> emitted < -20
               /\ theme.sentimentCategory = "neutral" <=> (emitted >= -20 /\ emitted <= 20)

\* C19: every emitted theme's sentimentCategory classifies the unrounded average
\* sum/count of the scores of its mentions (positive when > 0.2, negative when
\* < -0.2, neutral otherwise), and the emitted averageSentiment is that average
\* rounded to the nearest value of 2 decimal places.
C19_CategoryOfExactAverage ==
    SuccessSent =>
        \A k \in 1 .. Len(LastResponse.body.themes) :
            LET theme == LastResponse.body.themes[k]
                comments == LastResponse.body.comments
                count == Mentions(comments, theme.name)
                sum == ScoreSum(comments, theme.name, Len(comments))
            IN /\ count > 0
               /\ theme.sentimentCategory = "positive" <=> sum > 200 * count
               /\ theme.sentimentCategory = "negative" <=> sum < -200 * count
               /\ theme.sentimentCategory = "neutral"
                     <=> (sum >= -200 * count /\ sum <= 200 * count)
               /\ theme.averageSentiment.negative = (sum < 0)
               /\ 2 * Abs(10 * theme.averageSentiment.hundredths * count - Abs(sum))
                     <= 10 * count

\* a theme emitted with averageSentiment 0.20 and category positive
C19_Witness ==
    /\ SuccessSent
    /\ \E k \in 1 .. Len(LastResponse.body.themes) :
          /\ LastResponse.body.themes[k].averageSentiment.hundredths = 20
          /\ ~LastResponse.body.themes[k].averageSentiment.negative
          /\ LastResponse.body.themes[k].sentimentCategory = "positive"

\* C20: a request is answered exactly once: no path through the handler sends a
\* second response, the handler is over exactly when its one response has been
\* sent, and the outer catch answers only a request that had no answer yet.
C20_AnsweredOnce ==
    /\ Len(responses) <= 1
    /\ pc = "done" <=> Len(responses) = 1

\* the outer catch sent the only response of the request
C20_Witness ==
    /\ pc = "done"
    /\ Len(responses) = 1
    /\ "error" \in responses[1].body.fields
    /\ responses[1].status = 500
====
